---- MODULE Spec2Model ----
(***************************************************************************)
(* photo_frame_sync.py: sync_photos and the sent_photos store;             *)
(* scramble_pad.py: the ScramblePad window and its stats file.             *)
(*                                                                         *)
(* A filename is a sequence of one-character strings, <<"a",".","j","p",  *)
(* "g">> for a.jpg.  The durable store is the SQLite file (dbFile) with    *)
(* the committed rows of the table sent_photos; conn and txn are the       *)
(* connection of the running sync_photos and the rows it has inserted but  *)
(* not committed.  pc is the position of the running sync_photos.          *)
(*                                                                         *)
(* The two programs share nothing: the behaviours of sync_photos leave the *)
(* variables of ScramblePad at PadAbsent, those of ScramblePad leave the   *)
(* variables of sync_photos at EmptyState.                                 *)
(***************************************************************************)
EXTENDS Naturals, Sequences, FiniteSets, TLC

\* ---------------------------------------------------------------- bounds

\* Calls of sync_photos in one behaviour.
MaxRuns == 2
\* Files in PHOTO_DIR in the runs of sync_photos.
MaxFiles == 3
\* Files in PHOTO_DIR when only discovery is applied.
MaxGlobFiles == 4
\* Recorded files whose content changes.
MaxChanges == 1
\* Calls of mark_as_sent when only mark_as_sent is applied.
MaxMarkCalls == 2
\* Cells of the scramble pad, the first ones of its ten, and its digits.
NumCells == 2
\* Rounds finished while no message box is shown, in one behaviour of
\* ScramblePad.
MaxRows == 1
\* Key events with an effect handled while a result box is shown, for each
\* time one is shown.
MaxBoxKeys == 1

\* ------------------------------------------------------------ file names

a_jpg == <<"a", ".", "j", "p", "g">>
b_jpg == <<"b", ".", "j", "p", "g">>
z_jpg == <<"z", ".", "j", "p", "g">>
a1_jpg == <<"a", "-", "1", ".", "j", "p", "g">>
a_jpeg == <<"a", ".", "j", "p", "e", "g">>
a_png == <<"a", ".", "p", "n", "g">>
m_png == <<"m", ".", "p", "n", "g">>
z_png == <<"z", ".", "p", "n", "g">>
a_gif == <<"a", ".", "g", "i", "f">>
a_heic == <<"a", ".", "h", "e", "i", "c">>
a_txt == <<"a", ".", "t", "x", "t">>
A_jpg == <<"A", ".", "j", "p", "g">>

\* The files a directory of the runs is drawn from.
SyncFiles == {a_jpg, A_jpg, a_png, a_txt}

\* The files a directory of the discovery-only specification is drawn from.
GlobFiles ==
  {a_jpg, b_jpg, z_jpg, a1_jpg, a_jpeg, a_png, m_png, z_png, a_gif, a_heic, a_txt}

\* The characters of the names above in code point order (Python compares
\* str by code point).
Alphabet ==
  <<"-", ".", "1", "A", "a", "b", "c", "e", "f", "g", "h", "i", "j", "m", "n", "p",
    "t", "x", "z">>

Ord(c) == CHOOSE k \in 1..Len(Alphabet) : Alphabet[k] = c

\* ------------------------------------------------------------- discovery

\* The glob patterns of sync_photos, in the order of the concatenation.
Patterns ==
  << <<".", "j", "p", "g">>,
     <<".", "j", "p", "e", "g">>,
     <<".", "p", "n", "g">>,
     <<".", "g", "i", "f">>,
     <<".", "h", "e", "i", "c">> >>

\* name matches "*" followed by suffix.
EndsWith(name, suffix) ==
  /\ Len(name) >= Len(suffix)
  /\ SubSeq(name, Len(name) - Len(suffix) + 1, Len(name)) = suffix

\* PHOTO_DIR.glob("*" + suffix): the entries of the directory that match.
Glob(d, suffix) == {f \in d : EndsWith(f, suffix)}

\* s < t as Python compares two str: the first differing character decides,
\* a proper prefix is smaller.
RECURSIVE LexLess(_, _)
LexLess(s, t) ==
  IF t = <<>> THEN FALSE
  ELSE IF s = <<>> THEN TRUE
  ELSE IF Head(s) = Head(t) THEN LexLess(Tail(s), Tail(t))
  ELSE Ord(Head(s)) < Ord(Head(t))

\* sorted(...) of the paths of one directory: ascending by name.
RECURSIVE SortedNames(_)
SortedNames(S) ==
  IF S = {} THEN <<>>
  ELSE LET m == CHOOSE x \in S : \A y \in S \ {x} : LexLess(x, y)
       IN <<m>> \o SortedNames(S \ {m})

RECURSIVE ConcatSorted(_, _)
ConcatSorted(d, k) ==
  IF k > Len(Patterns) THEN <<>>
  ELSE SortedNames(Glob(d, Patterns[k])) \o ConcatSorted(d, k + 1)

\* A plausible slip: one sort over all the matches.
DiscoverGlobalSort(d) ==
  SortedNames({f \in d : \E k \in 1..Len(Patterns) : EndsWith(f, Patterns[k])})

\* photos = sorted(glob("*.jpg")) + ... + sorted(glob("*.heic")).
Discover(d) == ConcatSorted(d, 1)

Range(s) == {s[k] : k \in 1..Len(s)}

\* ----------------------------------------------------------------- state

VARIABLES
  dirExists,    \* PHOTO_DIR exists
  dir,          \* the names of the files in PHOTO_DIR
  dbFile,       \* DB_PATH exists and holds the table sent_photos
  sent_photos,  \* the committed rows of sent_photos (filenames)
  conn,         \* the connection of sync_photos: "none", "open", "closed"
  txn,          \* rows inserted on conn and not yet committed
  pc,           \* the position of sync_photos
  photos,       \* the list sync_photos iterates over
  i,            \* the index in photos of the item of the current iteration
  ret,          \* what the last sync_photos returned: <<>> is None
  err,          \* the exception that left the last sync_photos, or "none"
  runs,         \* calls of sync_photos so far
  delivered,    \* history: names for which send_photo_via_email returned
  marked,       \* history: names for which mark_as_sent returned
  okNow,        \* history of this run: send_photo_via_email returned
  failNow,      \* history of this run: send_photo_via_email raised
  skipNow,      \* history of this run: has_been_sent was true
  caughtNow,    \* history of this run: the except branch ran for the item
  dirChanged,   \* history: PHOTO_DIR changed since the last run ended
  prevDone,     \* history: the run before this one returned normally, and
                \* PHOTO_DIR is as that run found it
  prevMissing,  \* history: the names that run discovered and left unrecorded
  dbFile0,      \* history: dbFile when this run was called
  rows0,        \* history: sent_photos when this run was called
  smtpOpen,     \* the number of SMTP sessions the process holds open
  sessions,     \* SMTP sessions opened by this call of send_photo_via_email
  msg,          \* the attachments (filenames) of the message of this call
  outbox,       \* the messages this call has sent, each its attachments
  sendLog,      \* history of this run: the calls of send_photo_via_email
  changed,      \* files of PHOTO_DIR whose content changed after they were
                \* recorded
  damaged,      \* the store file holds rows that cannot be read
  pin,          \* ScramblePad.pin, a sequence of one-character strings
  entry,        \* ScramblePad.entry
  inputs,       \* ScramblePad.inputs
  started_at,   \* ScramblePad.started_at: "None" or "set" (a clock value)
  coord_to_digit,  \* ScramblePad.coord_to_digit
  digit_to_coord,  \* ScramblePad.digit_to_coord
  stats,        \* the rows of STATS_FILE, each <<correct, total>>
  dialogs,      \* the result boxes whose showinfo has not returned, the
                \* innermost last: for each the label its caller appends to
                \* inputs after start_round, "" if it appends none
  verdicts,     \* history: what _show_result has shown, each
                \* <<verdict, correct, total>>
  event,        \* history: the handler of ScramblePad that acted last
  boxKeys       \* history: the key events with an effect handled since a
                \* result box is shown

vars ==
  <<dirExists, dir, dbFile, sent_photos, conn, txn, pc, photos, i, ret, err,
    runs, delivered, marked, okNow, failNow, skipNow, caughtNow, dirChanged,
    prevDone, prevMissing, dbFile0, rows0, smtpOpen, sessions, msg, outbox,
    sendLog, changed, damaged, pin, entry, inputs, started_at,
    coord_to_digit, digit_to_coord, stats, dialogs, verdicts, event,
    boxKeys>>

\* The directory, which the runs leave alone.
env == <<dirExists, dir>>
\* The histories of one run.
runHist == <<okNow, failNow, skipNow, caughtNow>>
\* The histories set when a run is called.
callHist == <<dirChanged, prevDone, prevMissing, dbFile0, rows0, runs>>

\* The transport state of one call of send_photo_via_email.
smtp == <<smtpOpen, sessions, msg, outbox>>
\* What happens to the files between runs, besides the directory listing.
disk == <<changed, damaged>>

\* The state of ScramblePad and of its stats file.
pad ==
  <<pin, entry, inputs, started_at, coord_to_digit, digit_to_coord, stats,
    dialogs, verdicts, event, boxKeys>>

\* No ScramblePad has been constructed.
PadAbsent ==
  /\ pin = <<>> /\ entry = <<>> /\ inputs = <<>> /\ started_at = "None"
  /\ coord_to_digit = <<>> /\ digit_to_coord = <<>>
  /\ stats = <<>> /\ dialogs = <<>> /\ verdicts = <<>> /\ event = "none"
  /\ boxKeys = 0

\* No sync_photos is running: before the first call, or after one returned,
\* raised, or was stopped with the process.
NotRunning == pc \in {"idle", "returned", "raised", "crashed"}

\* State before the first call of sync_photos: no store yet; PHOTO_DIR is
\* missing or holds some files.
EmptyState ==
  /\ dbFile = FALSE /\ sent_photos = {} /\ conn = "none" /\ txn = {}
  /\ pc = "idle" /\ photos = <<>> /\ i = 0 /\ ret = <<>> /\ err = "none"
  /\ runs = 0 /\ delivered = {} /\ marked = {}
  /\ okNow = {} /\ failNow = {} /\ skipNow = {} /\ caughtNow = {}
  /\ dirChanged = FALSE
  /\ prevDone = FALSE /\ prevMissing = {} /\ dbFile0 = FALSE /\ rows0 = {}
  /\ smtpOpen = 0 /\ sessions = 0 /\ msg = <<>> /\ outbox = <<>>
  /\ sendLog = <<>> /\ changed = {} /\ damaged = FALSE

Init ==
  /\ dirExists \in BOOLEAN
  /\ dir \in {d \in SUBSET SyncFiles : Cardinality(d) <= MaxFiles}
  /\ (~dirExists => dir = {})
  /\ EmptyState
  /\ PadAbsent

\* ------------------------------------------------------------- the store

\* A plausible slip: init_db drops and recreates the table.
InitDbRecreate(exists, rows) == {}

\* The rows of sent_photos after CREATE TABLE IF NOT EXISTS.
InitDbRows(exists, rows) == IF exists THEN rows ELSE {}

\* A plausible slip: the lookup never finds a row.
HasBeenSentNever(rows, pending, filename) == FALSE

\* A plausible slip: the lookup folds case (COLLATE NOCASE).
HasBeenSentNoCase(rows, pending, filename) ==
  LET Lower(n) == [k \in 1..Len(n) |-> IF n[k] = "A" THEN "a" ELSE n[k]]
  IN Lower(filename) \in {Lower(r) : r \in rows \cup pending}

\* has_been_sent(conn, filename): SELECT on the connection, which sees the
\* committed rows and its own uncommitted ones; the match is on the exact
\* string.
has_been_sent(rows, pending, filename) == filename \in rows \cup pending

\* INSERT OR IGNORE INTO sent_photos: the rows pending on the connection.
InsertOrIgnore(pending, filename) == pending \cup {filename}

\* A plausible slip: a plain INSERT, whose conflict handling is ABORT.
ConflictAbort == "abort"

\* The conflict clause of the INSERT of mark_as_sent.
ConflictClause == "ignore"

\* The INSERT raises sqlite3.IntegrityError: filename is the PRIMARY KEY of
\* sent_photos, and a row with it exists and the clause is not OR IGNORE.
IntegrityError(rows, pending, filename) ==
  filename \in rows \cup pending /\ ConflictClause # "ignore"

\* -------------------------------------------------------------- actions

\* sync_photos is called and init_db returns a connection: the directory of
\* DB_PATH and the file are created if missing, the table if missing.
InitDbOk ==
  /\ NotRunning /\ runs < MaxRuns
  /\ prevDone' = (pc = "returned" /\ ~dirChanged)
  /\ prevMissing' = IF pc = "returned" /\ ~dirChanged
                     THEN Range(photos) \ sent_photos ELSE {}
  /\ dirChanged' = FALSE
  /\ dbFile0' = dbFile /\ rows0' = sent_photos
  /\ runs' = runs + 1
  /\ dbFile' = TRUE
  /\ sent_photos' = InitDbRows(dbFile, sent_photos)
  /\ conn' = "open" /\ txn' = {}
  /\ pc' = "glob" /\ photos' = <<>> /\ i' = 0 /\ ret' = <<>> /\ err' = "none"
  /\ okNow' = {} /\ failNow' = {} /\ skipNow' = {} /\ caughtNow' = {}
  /\ smtpOpen' = 0 /\ sessions' = 0 /\ msg' = <<>> /\ outbox' = <<>>
  /\ sendLog' = <<>>
  /\ UNCHANGED <<env, delivered, marked, disk>>
  /\ UNCHANGED pad

\* A plausible slip: the failure of init_db is caught and logged and the run
\* goes on without a store.
InitDbFailSwallowed ==
  /\ NotRunning /\ runs < MaxRuns
  /\ prevDone' = (pc = "returned" /\ ~dirChanged)
  /\ prevMissing' = IF pc = "returned" /\ ~dirChanged
                     THEN Range(photos) \ sent_photos ELSE {}
  /\ dirChanged' = FALSE
  /\ dbFile0' = dbFile /\ rows0' = sent_photos
  /\ runs' = runs + 1
  /\ conn' = "none" /\ txn' = {}
  /\ pc' = "glob" /\ err' = "init_db"
  /\ photos' = <<>> /\ i' = 0 /\ ret' = <<>>
  /\ okNow' = {} /\ failNow' = {} /\ skipNow' = {} /\ caughtNow' = {}
  /\ smtpOpen' = 0 /\ sessions' = 0 /\ msg' = <<>> /\ outbox' = <<>>
  /\ sendLog' = <<>>
  /\ UNCHANGED <<env, dbFile, sent_photos, delivered, marked, disk>>
  /\ UNCHANGED pad

\* sync_photos is called and init_db raises (mkdir, sqlite3.connect or the
\* CREATE TABLE): the exception leaves sync_photos.
InitDbFail ==
  /\ NotRunning /\ runs < MaxRuns
  /\ prevDone' = (pc = "returned" /\ ~dirChanged)
  /\ prevMissing' = IF pc = "returned" /\ ~dirChanged
                     THEN Range(photos) \ sent_photos ELSE {}
  /\ dirChanged' = FALSE
  /\ dbFile0' = dbFile /\ rows0' = sent_photos
  /\ runs' = runs + 1
  /\ conn' = "none" /\ txn' = {}
  /\ pc' = "raised" /\ err' = "init_db"
  /\ photos' = <<>> /\ i' = 0 /\ ret' = <<>>
  /\ okNow' = {} /\ failNow' = {} /\ skipNow' = {} /\ caughtNow' = {}
  /\ smtpOpen' = 0 /\ sessions' = 0 /\ msg' = <<>> /\ outbox' = <<>>
  /\ sendLog' = <<>>
  /\ UNCHANGED <<env, dbFile, sent_photos, delivered, marked, disk>>
  /\ UNCHANGED pad

\* The five globs, sorted and concatenated.  Path.glob of a directory that
\* does not exist yields nothing and raises nothing.
GlobPhotos ==
  /\ pc = "glob"
  /\ photos' = Discover(IF dirExists THEN dir ELSE {})
  /\ i' = 1
  /\ pc' = "loop"
  /\ UNCHANGED <<env, dbFile, sent_photos, conn, txn, ret, err, delivered,
                 marked, runHist, callHist,
                 smtp, sendLog, disk>>
  /\ UNCHANGED pad

\* The for loop is exhausted: control reaches conn.close().
LoopEnd ==
  /\ pc = "loop" /\ i > Len(photos)
  /\ pc' = "close"
  /\ UNCHANGED <<env, dbFile, sent_photos, conn, txn, photos, i, ret, err,
                 delivered, marked, runHist, callHist,
                 smtp, sendLog, disk>>
  /\ UNCHANGED pad

\* A plausible slip: an item found in the store is marked again.
LoopSkipRemarks ==
  /\ pc = "loop" /\ i <= Len(photos)
  /\ has_been_sent(sent_photos, txn, photos[i])
  /\ skipNow' = skipNow \cup {photos[i]}
  /\ pc' = "mark"
  /\ UNCHANGED <<env, dbFile, sent_photos, conn, txn, photos, i, ret, err,
                 delivered, marked, okNow, failNow, caughtNow, callHist,
                 smtp, sendLog, disk>>
  /\ UNCHANGED pad

\* has_been_sent is true: nothing is done for the item.
LoopSkip ==
  /\ pc = "loop" /\ i <= Len(photos)
  /\ has_been_sent(sent_photos, txn, photos[i])
  /\ skipNow' = skipNow \cup {photos[i]}
  /\ i' = i + 1
  /\ UNCHANGED <<env, dbFile, sent_photos, conn, txn, pc, photos, ret, err,
                 delivered, marked, okNow, failNow, caughtNow, callHist,
                 smtp, sendLog, disk>>
  /\ UNCHANGED pad

\* A plausible slip: the item is sent without the test of has_been_sent.
LoopSendUnchecked ==
  /\ pc = "loop" /\ i <= Len(photos)
  /\ pc' = "send"
  /\ sendLog' = Append(sendLog, photos[i])
  /\ sessions' = 0 /\ msg' = <<>> /\ outbox' = <<>>
  /\ UNCHANGED <<env, dbFile, sent_photos, conn, txn, photos, i, ret, err,
                 delivered, marked, runHist, callHist, smtpOpen, disk>>
  /\ UNCHANGED pad

\* has_been_sent is false: send_photo_via_email is called.
LoopSend ==
  /\ pc = "loop" /\ i <= Len(photos)
  /\ ~has_been_sent(sent_photos, txn, photos[i])
  /\ pc' = "send"
  /\ sendLog' = Append(sendLog, photos[i])
  /\ sessions' = 0 /\ msg' = <<>> /\ outbox' = <<>>
  /\ UNCHANGED <<env, dbFile, sent_photos, conn, txn, photos, i, ret, err,
                 delivered, marked, runHist, callHist, smtpOpen, disk>>
  /\ UNCHANGED pad

\* The SELECT of has_been_sent raises (sqlite3.Error): it is outside the
\* try, so the exception leaves sync_photos and conn.close() is not reached.
LoopReadFail ==
  /\ pc = "loop" /\ i <= Len(photos)
  /\ pc' = "raised" /\ err' = "has_been_sent"
  /\ UNCHANGED <<env, dbFile, sent_photos, conn, txn, photos, i, ret,
                 delivered, marked, runHist, callHist,
                 smtp, sendLog, disk>>
  /\ UNCHANGED pad

\* The positions inside send_photo_via_email: "send" before the file is
\* read, "connect" before SMTP_SSL(...), "login" and "sendmsg" inside the
\* with block before those calls, "quit" before the block is left.
SendPcs == {"send", "connect", "login", "sendmsg", "quit"}

\* Control is inside "with smtplib.SMTP_SSL(...) as server".
SessionHeld == pc \in {"login", "sendmsg", "quit"}

\* The message is built and the file is read and attached to it.
AttachFile ==
  /\ pc = "send"
  /\ msg' = Append(msg, photos[i])
  /\ pc' = "connect"
  /\ UNCHANGED <<env, dbFile, sent_photos, conn, txn, photos, i, ret, err,
                 delivered, marked, runHist, callHist, smtpOpen, sessions,
                 outbox, sendLog, disk>>
  /\ UNCHANGED pad

\* smtplib.SMTP_SSL(SMTP_SERVER, SMTP_PORT) connects: the with block is
\* entered with an open session.
Connect ==
  /\ pc = "connect"
  /\ smtpOpen' = smtpOpen + 1
  /\ sessions' = sessions + 1
  /\ pc' = "login"
  /\ UNCHANGED <<env, dbFile, sent_photos, conn, txn, photos, i, ret, err,
                 delivered, marked, runHist, callHist, msg, outbox, sendLog,
                 disk>>
  /\ UNCHANGED pad

\* server.login returns.
Login ==
  /\ pc = "login"
  /\ pc' = "sendmsg"
  /\ UNCHANGED <<env, dbFile, sent_photos, conn, txn, photos, i, ret, err,
                 delivered, marked, runHist, callHist, smtp, sendLog, disk>>
  /\ UNCHANGED pad

\* server.send_message(msg) returns: the message has gone out.
SendMessage ==
  /\ pc = "sendmsg"
  /\ outbox' = Append(outbox, msg)
  /\ pc' = "quit"
  /\ UNCHANGED <<env, dbFile, sent_photos, conn, txn, photos, i, ret, err,
                 delivered, marked, runHist, callHist, smtpOpen, sessions, msg,
                 sendLog, disk>>
  /\ UNCHANGED pad

\* The with block is left, which closes the session, and
\* send_photo_via_email returns: the message was sent.
SendOk ==
  /\ pc = "quit"
  /\ smtpOpen' = smtpOpen - 1
  /\ delivered' = delivered \cup {photos[i]}
  /\ okNow' = okNow \cup {photos[i]}
  /\ pc' = "mark"
  /\ UNCHANGED <<env, dbFile, sent_photos, conn, txn, photos, i, ret, err,
                 marked, failNow, skipNow, caughtNow, callHist, sessions, msg,
                 outbox, sendLog, disk>>
  /\ UNCHANGED pad

\* A plausible slip: the item is marked whether or not the send raised.
SendFailMarks ==
  /\ pc \in SendPcs
  /\ smtpOpen' = IF SessionHeld THEN smtpOpen - 1 ELSE smtpOpen
  /\ failNow' = failNow \cup {photos[i]}
  /\ pc' = "mark"
  /\ UNCHANGED <<env, dbFile, sent_photos, conn, txn, photos, i, ret, err,
                 delivered, marked, okNow, skipNow, caughtNow, callHist,
                 sessions, msg, outbox, sendLog, disk>>
  /\ UNCHANGED pad

\* A plausible slip: the session is closed only on the path without an
\* exception (server.quit() after send_message, no with block).
SendFailLeaks ==
  /\ pc \in SendPcs
  /\ failNow' = failNow \cup {photos[i]}
  /\ caughtNow' = caughtNow \cup {photos[i]}
  /\ i' = i + 1
  /\ pc' = "loop"
  /\ UNCHANGED <<env, dbFile, sent_photos, conn, txn, photos, ret, err,
                 delivered, marked, okNow, skipNow, callHist, smtp, sendLog,
                 disk>>
  /\ UNCHANGED pad

\* A plausible slip: a failed send is tried again at once.
SendFailRetries ==
  /\ pc \in SendPcs
  /\ smtpOpen' = IF SessionHeld THEN smtpOpen - 1 ELSE smtpOpen
  /\ failNow' = failNow \cup {photos[i]}
  /\ sendLog' = Append(sendLog, photos[i])
  /\ sessions' = 0 /\ msg' = <<>> /\ outbox' = <<>>
  /\ pc' = "send"
  /\ UNCHANGED <<env, dbFile, sent_photos, conn, txn, photos, i, ret, err,
                 delivered, marked, okNow, skipNow, caughtNow, callHist, disk>>
  /\ UNCHANGED pad

\* send_photo_via_email raises (open, SMTP_SSL, login, send_message, or the
\* QUIT on leaving the with block): the with block, if entered, closes the
\* session; the except branch prints and the loop goes on to the next item.
SendFail ==
  /\ pc \in SendPcs
  /\ smtpOpen' = IF SessionHeld THEN smtpOpen - 1 ELSE smtpOpen
  /\ failNow' = failNow \cup {photos[i]}
  /\ caughtNow' = caughtNow \cup {photos[i]}
  /\ i' = i + 1
  /\ pc' = "loop"
  /\ UNCHANGED <<env, dbFile, sent_photos, conn, txn, photos, ret, err,
                 delivered, marked, okNow, skipNow, callHist, sessions, msg,
                 outbox, sendLog, disk>>
  /\ UNCHANGED pad

\* mark_as_sent: the INSERT OR IGNORE runs inside "with conn".  An INSERT
\* that raised IntegrityError would be rolled back by "with conn" and
\* caught by the except branch of the loop.
MarkInsert ==
  /\ pc = "mark"
  /\ IF IntegrityError(sent_photos, txn, photos[i])
     THEN /\ txn' = {}
          /\ caughtNow' = caughtNow \cup {photos[i]}
          /\ i' = i + 1
          /\ pc' = "loop"
          /\ UNCHANGED <<okNow, failNow, skipNow>>
     ELSE /\ txn' = InsertOrIgnore(txn, photos[i])
          /\ pc' = "commit"
          /\ UNCHANGED <<i, runHist>>
  /\ UNCHANGED <<env, dbFile, sent_photos, conn, photos, ret, err,
                 delivered, marked, callHist, smtp, sendLog, disk>>
  /\ UNCHANGED pad

\* A plausible slip: mark_as_sent returns without the commit of "with conn".
MarkNoCommit ==
  /\ pc = "commit"
  /\ marked' = marked \cup {photos[i]}
  /\ i' = i + 1
  /\ pc' = "loop"
  /\ UNCHANGED <<env, dbFile, sent_photos, conn, txn, photos, ret, err,
                 delivered, runHist, callHist,
                 smtp, sendLog, disk>>
  /\ UNCHANGED pad

\* "with conn" commits on leaving the block and mark_as_sent returns.
MarkCommit ==
  /\ pc = "commit"
  /\ sent_photos' = sent_photos \cup txn
  /\ txn' = {}
  /\ marked' = marked \cup {photos[i]}
  /\ i' = i + 1
  /\ pc' = "loop"
  /\ UNCHANGED <<env, dbFile, conn, photos, ret, err, delivered, runHist,
                 callHist,
                 smtp, sendLog, disk>>
  /\ UNCHANGED pad

\* The INSERT or the commit raises (sqlite3.Error: the file is read-only, the
\* disk is full): "with conn" rolls back, and the exception is caught by the
\* except branch of the loop, which prints "Failed to send" and goes on.
MarkFail ==
  /\ pc \in {"mark", "commit"}
  /\ txn' = {}
  /\ caughtNow' = caughtNow \cup {photos[i]}
  /\ i' = i + 1
  /\ pc' = "loop"
  /\ UNCHANGED <<env, dbFile, sent_photos, conn, photos, ret, err, delivered,
                 marked, okNow, failNow, skipNow, callHist,
                 smtp, sendLog, disk>>
  /\ UNCHANGED pad

\* conn.close() and the return of sync_photos, which returns None.  Closing
\* a connection commits nothing.
CloseAndReturn ==
  /\ pc = "close"
  /\ conn' = "closed"
  /\ txn' = {}
  /\ ret' = <<>>
  /\ pc' = "returned"
  /\ UNCHANGED <<env, dbFile, sent_photos, photos, i, err, delivered, marked,
                 runHist, callHist,
                 smtp, sendLog, disk>>
  /\ UNCHANGED pad

\* The process stops in the middle of sync_photos: the connection, what it
\* had not committed and any SMTP session are gone, the file keeps its
\* committed rows.
Crash ==
  /\ ~NotRunning
  /\ conn' = "none"
  /\ txn' = {}
  /\ pc' = "crashed"
  /\ smtpOpen' = 0
  /\ UNCHANGED <<env, dbFile, sent_photos, photos, i, ret, err, delivered,
                 marked, runHist, callHist, sessions, msg, outbox, sendLog,
                 disk>>
  /\ UNCHANGED pad

\* Between two runs a file is put into PHOTO_DIR.
AddFile(f) ==
  /\ NotRunning /\ dirExists /\ runs < MaxRuns
  /\ f \notin dir /\ Cardinality(dir) < MaxFiles
  /\ dir' = dir \cup {f}
  /\ dirChanged' = TRUE
  /\ UNCHANGED <<dirExists, dbFile, sent_photos, conn, txn, pc, photos, i, ret,
                 err, runs, delivered, marked, runHist, prevDone, prevMissing,
                 dbFile0, rows0,
                 smtp, sendLog, disk>>
  /\ UNCHANGED pad

\* Between two runs a file is taken out of PHOTO_DIR.
RemoveFile(f) ==
  /\ NotRunning /\ dirExists /\ runs < MaxRuns
  /\ f \in dir
  /\ dir' = dir \ {f}
  /\ changed' = changed \ {f}
  /\ dirChanged' = TRUE
  /\ UNCHANGED <<dirExists, dbFile, sent_photos, conn, txn, pc, photos, i, ret,
                 err, runs, delivered, marked, runHist, prevDone, prevMissing,
                 dbFile0, rows0, smtp, sendLog, damaged>>
  /\ UNCHANGED pad

\* Between two runs a file that was recorded gets another content under
\* the same name.
ModifyFile(f) ==
  /\ NotRunning /\ dirExists /\ runs < MaxRuns
  /\ f \in dir /\ f \in sent_photos
  /\ f \notin changed /\ Cardinality(changed) < MaxChanges
  /\ changed' = changed \cup {f}
  /\ dirChanged' = TRUE
  /\ UNCHANGED <<env, dbFile, sent_photos, conn, txn, pc, photos, i, ret,
                 err, runs, delivered, marked, runHist, prevDone, prevMissing,
                 dbFile0, rows0, smtp, sendLog, damaged>>
  /\ UNCHANGED pad

\* Between two runs rows of the store file become unreadable (a damaged
\* page of the SQLite file).
DamageStore ==
  /\ NotRunning /\ runs < MaxRuns
  /\ dbFile /\ sent_photos # {} /\ ~damaged
  /\ damaged' = TRUE
  /\ UNCHANGED <<env, dbFile, sent_photos, conn, txn, pc, photos, i, ret,
                 err, delivered, marked, runHist, callHist, smtp, sendLog,
                 changed>>
  /\ UNCHANGED pad

Next ==
  \/ \E f \in SyncFiles : AddFile(f)
  \/ \E f \in SyncFiles : RemoveFile(f)
  \/ \E f \in SyncFiles : ModifyFile(f)
  \/ DamageStore
  \/ InitDbOk
  \/ InitDbFail
  \/ GlobPhotos
  \/ LoopEnd
  \/ LoopSkip
  \/ LoopSend
  \/ LoopReadFail
  \/ AttachFile
  \/ Connect
  \/ Login
  \/ SendMessage
  \/ SendOk
  \/ SendFail
  \/ MarkInsert
  \/ MarkCommit
  \/ MarkFail
  \/ CloseAndReturn
  \/ Crash

Spec == Init /\ [][Next]_vars

\* Discovery alone: sync_photos stands before the globs, with a directory
\* drawn from GlobFiles.
InitGlob ==
  /\ dirExists \in BOOLEAN
  /\ dir \in {d \in SUBSET GlobFiles : Cardinality(d) <= MaxGlobFiles}
  /\ (~dirExists => dir = {})
  /\ dbFile = TRUE /\ sent_photos = {} /\ conn = "open" /\ txn = {}
  /\ pc = "glob" /\ photos = <<>> /\ i = 0 /\ ret = <<>> /\ err = "none"
  /\ runs = 1 /\ delivered = {} /\ marked = {}
  /\ okNow = {} /\ failNow = {} /\ skipNow = {} /\ caughtNow = {}
  /\ dirChanged = FALSE
  /\ prevDone = FALSE /\ prevMissing = {} /\ dbFile0 = FALSE /\ rows0 = {}
  /\ smtpOpen = 0 /\ sessions = 0 /\ msg = <<>> /\ outbox = <<>>
  /\ sendLog = <<>> /\ changed = {} /\ damaged = FALSE
  /\ PadAbsent

SpecGlob == InitGlob /\ [][GlobPhotos]_vars

\* mark_as_sent alone: a caller holds an open connection to a store with
\* some rows and calls mark_as_sent(conn, photos[i]) for each name of a list
\* that may hold a name twice and names that are in the store.
MarkNames == {a_jpg, b_jpg, a_png}

MarkLists ==
  UNION {[1..n -> MarkNames] : n \in 1..MaxMarkCalls}

InitMark ==
  /\ dirExists = TRUE /\ dir = MarkNames
  /\ dbFile = TRUE /\ sent_photos \in SUBSET MarkNames
  /\ conn = "open" /\ txn = {}
  /\ pc = "loop" /\ photos \in MarkLists /\ i = 1
  /\ ret = <<>> /\ err = "none"
  /\ runs = 1 /\ delivered = MarkNames /\ marked = sent_photos
  /\ okNow = {} /\ failNow = {} /\ skipNow = {} /\ caughtNow = {}
  /\ dirChanged = FALSE
  /\ prevDone = FALSE /\ prevMissing = {} /\ dbFile0 = TRUE
  /\ rows0 = sent_photos
  /\ smtpOpen = 0 /\ sessions = 0 /\ msg = <<>> /\ outbox = <<>>
  /\ sendLog = <<>> /\ changed = {} /\ damaged = FALSE
  /\ PadAbsent

\* The caller calls mark_as_sent(conn, photos[i]).
CallMarkAsSent ==
  /\ pc = "loop" /\ i <= Len(photos)
  /\ pc' = "mark"
  /\ UNCHANGED <<env, dbFile, sent_photos, conn, txn, photos, i, ret, err,
                 delivered, marked, runHist, callHist, smtp, sendLog, disk>>
  /\ UNCHANGED pad

NextMark == CallMarkAsSent \/ MarkInsert \/ MarkCommit

SpecMark == InitMark /\ [][NextMark]_vars

\* ------------------------------------------------------- scramble_pad.py

\* len(self.pin): load_or_create_pin returns four digits.
PinLen == 4

\* [str(d) for d in range(10)].
AllDigits == <<"0", "1", "2", "3", "4", "5", "6", "7", "8", "9">>

\* positions of _shuffle_digits, in its order: the 3x3 grid, then (3, 1).
AllPositions ==
  << <<0, 0>>, <<0, 1>>, <<0, 2>>, <<1, 0>>, <<1, 1>>, <<1, 2>>,
     <<2, 0>>, <<2, 1>>, <<2, 2>>, <<3, 1>> >>

\* The digits and the positions of the pad.
Digits == {AllDigits[k] : k \in 1..NumCells}
Positions == {AllPositions[k] : k \in 1..NumCells}

\* The buttons of the grid that are clicked: the cells but the first, which
\* is entered by its two keys, and (3, 0), which never shows a digit.
Buttons == (Positions \ {<<0, 0>>}) \cup {<<3, 0>>}

\* f"btn({row},{col})".
BtnLabel ==
  (<<0, 0>> :> "btn(0,0)") @@ (<<0, 1>> :> "btn(0,1)") @@
  (<<0, 2>> :> "btn(0,2)") @@ (<<1, 0>> :> "btn(1,0)") @@
  (<<1, 1>> :> "btn(1,1)") @@ (<<1, 2>> :> "btn(1,2)") @@
  (<<2, 0>> :> "btn(2,0)") @@ (<<2, 1>> :> "btn(2,1)") @@
  (<<2, 2>> :> "btn(2,2)") @@ (<<3, 1>> :> "btn(3,1)")

NUMPAD_POS ==
  ("KP_7" :> <<0, 0>>) @@ ("KP_8" :> <<0, 1>>) @@ ("KP_9" :> <<0, 2>>) @@
  ("KP_4" :> <<1, 0>>) @@ ("KP_5" :> <<1, 1>>) @@ ("KP_6" :> <<1, 2>>) @@
  ("KP_1" :> <<2, 0>>) @@ ("KP_2" :> <<2, 1>>) @@ ("KP_3" :> <<2, 2>>) @@
  ("KP_0" :> <<3, 1>>)

KEYPOS_POS ==
  ("1" :> <<2, 0>>) @@ ("2" :> <<2, 1>>) @@ ("3" :> <<2, 2>>) @@
  ("4" :> <<1, 0>>) @@ ("5" :> <<1, 1>>) @@ ("6" :> <<1, 2>>) @@
  ("7" :> <<0, 0>>) @@ ("8" :> <<0, 1>>) @@ ("9" :> <<0, 2>>) @@
  ("0" :> <<3, 1>>)

\* The event.keysym values of the key events: a finishing key, the clearing
\* key, the numpad key and the digit key of the first cell, a key of each
\* map whose cell shows no digit, the stats key, and a key that is bound to
\* nothing.
Keysyms == {"Return", "BackSpace", "KP_7", "7", "KP_0", "0", "S", "x"}

\* The PIN load_or_create_pin returns.
Pins == {<<"0", "1", "1", "0">>}

\* A plausible slip: the digits are drawn with random.choices, which
\* repeats digits.
ShufflesWithRepeats == [Positions -> Digits]

\* The layouts _shuffle_digits can make: digits is shuffled and digits[idx]
\* goes to positions[idx], so each digit goes to one position.
Shuffles ==
  {f \in [Positions -> Digits] :
     \A a, b \in Positions : f[a] = f[b] => a = b}

\* digit_to_coord as the loop of _shuffle_digits fills it for the layout f:
\* the last position written for a digit stays.
DigitToCoord(f) ==
  LET last(d) ==
        CHOOSE k \in 1..NumCells :
          /\ f[AllPositions[k]] = d
          /\ \A m \in (k + 1)..NumCells : f[AllPositions[m]] # d
  IN [d \in {f[c] : c \in Positions} |-> AllPositions[last(d)]]

\* dict.get(coord): None for a coordinate that is no key.
Get(f, coord) == IF coord \in DOMAIN f THEN f[coord] ELSE "None"

\* "if digit:" for a str or None.
Truthy(digit) == digit \notin {"None", ""}

\* key.lower() for the keys of Keysyms.
Lower(key) == IF key = "S" THEN "s" ELSE key

\* entered of _finish_if_ready: the entry padded with "" and cut to the
\* length of the PIN.
Entered(e) == [k \in 1..PinLen |-> IF k <= Len(e) THEN e[k] ELSE ""]

\* correct of _finish_if_ready.
Correct(e) == Cardinality({k \in 1..PinLen : Entered(e)[k] = pin[k]})

\* interpreted of _show_result: the characters of "".join(entry[:len(pin)]),
\* each element of entry being one character.
Interpreted(e) == SubSeq(e, 1, IF Len(e) < PinLen THEN Len(e) ELSE PinLen)

\* A plausible slip: the verdict compares with pin.startswith(interpreted).
VerdictByPrefix(e) ==
  IF \A k \in 1..Len(Interpreted(e)) : Interpreted(e)[k] = pin[k]
  THEN "Correct" ELSE "Incorrect"

\* verdict of _show_result.
Verdict(e) == IF Interpreted(e) = pin THEN "Correct" ELSE "Incorrect"

\* State after ScramblePad(pin) is constructed: __init__ has shuffled the
\* digits; the stats file is empty.
InitPad ==
  /\ dirExists = FALSE /\ dir = {}
  /\ EmptyState
  /\ pin \in Pins
  /\ entry = <<>> /\ inputs = <<>> /\ started_at = "None"
  /\ coord_to_digit \in Shuffles
  /\ digit_to_coord = DigitToCoord(coord_to_digit)
  /\ stats = <<>> /\ dialogs = <<>> /\ verdicts = <<>> /\ event = "init"
  /\ boxKeys = 0

\* The variables of sync_photos.
photoVars ==
  <<env, dbFile, sent_photos, conn, txn, pc, photos, i, ret, err, delivered,
    marked, runHist, callHist, smtp, sendLog, disk>>

\* _shuffle_digits.
ShuffleDigits ==
  \E f \in Shuffles :
    /\ coord_to_digit' = f
    /\ digit_to_coord' = DigitToCoord(f)

\* start_round.
start_round ==
  /\ entry' = <<>> /\ inputs' = <<>> /\ started_at' = "None"
  /\ ShuffleDigits

\* A plausible slip: the panic button starts a new round.
ClearEntryReshuffles ==
  /\ start_round
  /\ UNCHANGED <<pin, stats, dialogs, verdicts>>

\* clear_entry.
clear_entry ==
  /\ entry' = <<>> /\ inputs' = <<>> /\ started_at' = "None"
  /\ UNCHANGED <<pin, coord_to_digit, digit_to_coord, stats, dialogs,
                 verdicts>>

\* _finish_if_ready past its two early returns, for the entry e, up to the
\* message box of _show_result: the row is appended, the verdict is shown and
\* showinfo waits.  What follows showinfo, start_round and for a digit
\* handler the append of label to inputs, waits with the box.
FinishRound(e, label) ==
  /\ stats' = Append(stats, <<Correct(e), PinLen>>)
  /\ verdicts' = Append(verdicts, <<Verdict(e), Correct(e), PinLen>>)
  /\ dialogs' = Append(dialogs, label)

\* _accept_digit(digit) and the inputs.append(label) of its caller.
AcceptDigit(digit, label) ==
  /\ started_at' = "set"
  /\ IF Len(entry) >= PinLen
     THEN /\ entry' = entry
          /\ inputs' = Append(inputs, label)
          /\ UNCHANGED <<stats, verdicts, dialogs>>
     ELSE LET e == Append(entry, digit)
          IN /\ entry' = e
             /\ IF Len(e) < PinLen
                THEN /\ inputs' = Append(inputs, label)
                     /\ UNCHANGED <<stats, verdicts, dialogs>>
                ELSE /\ inputs' = inputs
                     /\ FinishRound(e, label)
  /\ event' = "digit"
  /\ UNCHANGED <<pin, coord_to_digit, digit_to_coord>>

\* show_stats: the stats file is read and a message box is shown in both
\* branches, which is closed before another event: no field and no file
\* changes.
show_stats == UNCHANGED pad

\* The session goes on: fewer than MaxRows rounds are finished, or the
\* result box of a round is still shown.
InSession == Len(stats) < MaxRows \/ dialogs # <<>>

\* A handler returns without an effect on the window or the stats file.
NoEffect == UNCHANGED pad

\* The count of the key events that had an effect while a result box is
\* shown.
KeyCounted ==
  IF dialogs = <<>>
  THEN boxKeys' = boxKeys
  ELSE boxKeys < MaxBoxKeys /\ boxKeys' = boxKeys + 1

\* The digit branch of a handler: the lookup of the digit at coord, then
\* _accept_digit and the append to inputs if the cell shows one.
DigitAt(coord, label) ==
  LET digit == Get(coord_to_digit, coord)
  IN IF Truthy(digit)
     THEN AcceptDigit(digit, label) /\ KeyCounted
     ELSE NoEffect

\* _on_click_cell(row, col), the command of the grid button at b.  A result
\* box holds the grab, so no button is clicked while one is shown.
OnClickCell(b) ==
  /\ InSession /\ dialogs = <<>>
  /\ DigitAt(b, IF b \in DOMAIN BtnLabel THEN BtnLabel[b] ELSE "")
  /\ UNCHANGED photoVars

\* _on_key(event) for event.keysym = key.  bind_all binds it to every
\* widget, those of a message box included where Tk builds the box of its
\* own widgets (X11), so a key pressed while the result box is shown is
\* handled as well, inside the event loop of showinfo.
OnKey(key) ==
  /\ InSession
  /\ IF key \in {"Return", "KP_Enter"}
     THEN IF entry = <<>>
          THEN NoEffect
          ELSE /\ FinishRound(entry, "")
               /\ event' = "enter"
               /\ KeyCounted
               /\ UNCHANGED <<pin, entry, inputs, started_at,
                              coord_to_digit, digit_to_coord>>
     ELSE IF key = "BackSpace"
     THEN clear_entry /\ event' = "clear_entry" /\ KeyCounted
     ELSE IF key \in DOMAIN NUMPAD_POS
     THEN DigitAt(NUMPAD_POS[key], key)
     ELSE IF key \in DOMAIN KEYPOS_POS
     THEN DigitAt(KEYPOS_POS[key], key)
     ELSE IF Lower(key) = "s"
     THEN show_stats
     ELSE NoEffect
  /\ UNCHANGED photoVars

\* The START button: start_round.
ClickStart ==
  /\ InSession /\ dialogs = <<>>
  /\ start_round
  /\ event' = "start_round"
  /\ UNCHANGED <<pin, stats, dialogs, verdicts>>
  /\ UNCHANGED <<boxKeys, photoVars>>

\* The CLEAR button: clear_entry.
ClickClear ==
  /\ InSession /\ dialogs = <<>>
  /\ clear_entry
  /\ event' = "clear_entry"
  /\ UNCHANGED <<boxKeys, photoVars>>

\* The STATS button: show_stats.
ClickStats ==
  /\ InSession /\ dialogs = <<>>
  /\ show_stats
  /\ UNCHANGED photoVars

\* The result box is closed and showinfo returns.  A result box opened by a
\* key handler while another was shown has replaced that one, so every
\* showinfo returns, the innermost first, and each caller goes on with
\* start_round and then, in a digit handler, inputs.append.  The caller that
\* goes on last is the one of the first box of dialogs: what it leaves stays.
CloseDialog ==
  /\ dialogs # <<>>
  /\ entry' = <<>> /\ started_at' = "None"
  /\ ShuffleDigits
  /\ inputs' = IF dialogs[1] = "" THEN <<>> ELSE <<dialogs[1]>>
  /\ dialogs' = <<>>
  /\ boxKeys' = 0
  /\ event' = "close"
  /\ UNCHANGED <<pin, stats, verdicts>>
  /\ UNCHANGED photoVars

NextPad ==
  \/ \E b \in Buttons : OnClickCell(b)
  \/ \E key \in Keysyms : OnKey(key)
  \/ ClickStart
  \/ ClickClear
  \/ ClickStats
  \/ CloseDialog

SpecPad == InitPad /\ [][NextPad]_vars

\* ---------------------------------------------------------------- claims

\* The item of the current iteration, when there is one.
InItem == pc \in SendPcs \cup {"mark", "commit"}

\* send_photo_via_email has been called and has not returned or raised.
Sending == pc \in SendPcs

\* The run is over and control is back at the caller.
Ended == pc \in {"returned", "raised"}

\* C1: every filename in the store (committed, or inserted and not yet
\* committed) is one for which send_photo_via_email returned in this or an
\* earlier run, also after a crash; mark_as_sent runs only for the item whose
\* send has just returned, never for one whose send raised or was not made.
C1_RecordOnlyDelivered ==
  /\ sent_photos \cup txn \subseteq delivered
  /\ marked \subseteq delivered
  /\ (pc \in {"mark", "commit"} =>
        photos[i] \in okNow /\ photos[i] \notin failNow)

\* C1 witness: the process stopped in a run in which one send raised and
\* another item was recorded.
C1_Witness == pc = "crashed" /\ sent_photos # {} /\ failNow # {}

\* C2 (the claim as stated): when a run returns, every discovered item was
\* reached, every item whose send returned is in the store and every item
\* whose send raised is absent from it.
C2_FailureIsolation ==
  pc = "returned" =>
    /\ Range(photos) \subseteq skipNow \cup okNow \cup failNow
    /\ okNow \subseteq sent_photos
    /\ failNow \cap sent_photos = {}

\* C3: while send_photo_via_email is being called for a filename,
\* mark_as_sent has never returned for it and it is not in the store: once
\* recorded, a filename is not sent again in that run or a later one.
C3_AtMostOnceAfterRecorded ==
  Sending => photos[i] \notin marked /\ photos[i] \notin sent_photos

\* C3 witness: a later run skips a recorded item and sends another.
C3_Witness == pc = "send" /\ runs = 2 /\ skipNow # {} /\ marked # {}

\* The names for which this run has called send_photo_via_email.
AttemptedNow ==
  okNow \cup failNow \cup (IF Sending THEN {photos[i]} ELSE {})

\* C4 (the claim as stated): a run that follows a run that returned delivers
\* no item, whatever the outcomes of the first run.
C4_SecondRunDeliversNothing == prevDone => okNow = {}

\* C4 (amended): a run that follows a run that returned calls
\* send_photo_via_email only for the names that run left out of the store; it
\* makes no call when that run left every discovered name in the store.
C4_SecondRunOnlyMissing ==
  prevDone =>
    /\ AttemptedNow \subseteq prevMissing
    /\ (prevMissing = {} => AttemptedNow = {} /\ ~InItem)

\* C4 witness: the second run has returned after skipping every item of a
\* directory of at least two photos.
C4_Witness ==
  /\ prevDone /\ prevMissing = {} /\ pc = "returned"
  /\ Len(photos) >= 2 /\ skipNow = Range(photos)

\* C5 (the claim as stated): with PHOTO_DIR missing, a run that init_db let
\* through ends by an error raised by discovery, has made no delivery attempt
\* and leaves the store as it was when the run was called (not created, not
\* modified).
C5_MissingDirAborts ==
  (~dirExists /\ Ended /\ err # "init_db") =>
    /\ pc = "raised" /\ err = "glob"
    /\ okNow \cup failNow = {}
    /\ dbFile = dbFile0 /\ sent_photos = rows0

\* C6: every filename for which mark_as_sent has returned is a committed row
\* of the file, so has_been_sent finds it on the connection of any later
\* init_db, whether the run closed the connection or the process stopped.
C6_Durability ==
  \A x \in marked :
    /\ dbFile
    /\ x \in sent_photos
    /\ has_been_sent(InitDbRows(dbFile, sent_photos), {}, x)

\* C6 witness: the process stopped in the first run after mark_as_sent had
\* returned for an item, before conn.close().
C6_Witness == pc = "crashed" /\ runs = 1 /\ conn = "none" /\ marked # {}

\* C7: no step removes a row of sent_photos or the store file.
C7_MonotonicGrowth ==
  [][sent_photos \subseteq sent_photos' /\ (dbFile => dbFile')]_vars

\* C7 witness: init_db has returned on a store that held rows.
C7_Witness == runs = 2 /\ pc = "glob" /\ rows0 # {} /\ sent_photos = rows0

\* name matches one of the five patterns.
IsPhoto(name) == \E k \in 1..Len(Patterns) : EndsWith(name, Patterns[k])

\* The place of name's pattern in jpg, jpeg, png, gif, heic.
CategoryOf(name) == CHOOSE k \in 1..Len(Patterns) : EndsWith(name, Patterns[k])

\* s is lexicographically before t: they agree up to a place where s has
\* ended or has the smaller character.
LexBefore(s, t) ==
  \E k \in 1..Len(t) :
    /\ k <= Len(s) + 1
    /\ \A j \in 1..(k - 1) : s[j] = t[j]
    /\ (k > Len(s) \/ Ord(s[k]) < Ord(t[k]))

\* C8: the list sync_photos iterates over holds each matching file of the
\* directory once, grouped by category in the order jpg, jpeg, png, gif, heic
\* and sorted lexicographically by filename inside a category; {b.jpg, a.jpg,
\* z.png, m.png} gives [a.jpg, b.jpg, m.png, z.png], and a.png comes after
\* z.jpg.
C8_DiscoveryOrder ==
  pc = "loop" =>
    /\ Range(photos) = {f \in dir : IsPhoto(f)}
    /\ Len(photos) = Cardinality(Range(photos))
    /\ \A j, k \in 1..Len(photos) :
         j < k =>
           \/ CategoryOf(photos[j]) < CategoryOf(photos[k])
           \/ /\ CategoryOf(photos[j]) = CategoryOf(photos[k])
              /\ LexBefore(photos[j], photos[k])
    /\ (dir = {b_jpg, a_jpg, z_png, m_png} =>
          photos = <<a_jpg, b_jpg, m_png, z_png>>)
    /\ (dir = {a_png, z_jpg} => photos = <<z_jpg, a_png>>)

\* C8 witness: discovery has run on {b.jpg, a.jpg, z.png, m.png}.
C8_Witness == pc = "loop" /\ dir = {b_jpg, a_jpg, z_png, m_png}

\* The terminal states of an item in a run.
Skipped(x) == x \in skipNow /\ x \in sent_photos /\ x \notin okNow \cup failNow
Recorded(x) == x \in okNow /\ x \in sent_photos /\ x \notin skipNow
Deferred(x) == x \in failNow /\ x \notin okNow /\ x \notin sent_photos

\* C9 (the claim as stated): when a run returns, each discovered item is in
\* exactly one of Skipped (in the store, not sent), Recorded (sent and in
\* the store) and Deferred (the send failed, not in the store).
C9_TerminalStates ==
  pc = "returned" =>
    \A x \in Range(photos) :
      /\ Skipped(x) \/ Recorded(x) \/ Deferred(x)
      /\ ~(Skipped(x) /\ Recorded(x))
      /\ ~(Skipped(x) /\ Deferred(x))
      /\ ~(Recorded(x) /\ Deferred(x))

\* The summary a run would return: the counts of Recorded, Skipped and
\* Deferred items and the names that failed.
RunSummary ==
  LET rec == {x \in Range(photos) : Recorded(x)}
      skp == {x \in Range(photos) : Skipped(x)}
      dfr == {x \in Range(photos) : Deferred(x)}
  IN <<Cardinality(rec), Cardinality(skp), Cardinality(dfr), dfr>>

\* C10 (the claim as stated): sync_photos returns the counts of Recorded,
\* Skipped and Deferred items with the names that failed, and the counts sum
\* to the number of discovered items.
C10_RunSummary ==
  pc = "returned" =>
    /\ Len(ret) = 4
    /\ ret = RunSummary
    /\ ret[1] + ret[2] + ret[3] = Len(photos)

\* C11: when init_db raises, the exception leaves sync_photos at once: the
\* run has made no discovery, no call of send_photo_via_email and no change
\* of the store, and holds no connection.
C11_StoreUnavailableFirst ==
  err = "init_db" =>
    /\ pc = "raised"
    /\ photos = <<>> /\ i = 0
    /\ sendLog = <<>> /\ okNow \cup failNow \cup skipNow = {}
    /\ sessions = 0 /\ smtpOpen = 0
    /\ conn = "none"
    /\ dbFile = dbFile0 /\ sent_photos = rows0

\* C11 witness: init_db raised in a second run while a photo of the
\* directory was not yet in the store.
C11_Witness ==
  /\ err = "init_db" /\ pc = "raised" /\ runs = 2
  /\ dirExists /\ Range(Discover(dir)) \ sent_photos # {}

\* C12: a step of the loop taken for an item whose filename is in the store
\* (other than the program stopping or the lookup raising) only moves to the
\* next item: no call of send_photo_via_email, no SMTP session, no write to
\* the store.
C12_SkipNoEffect ==
  [][(/\ pc = "loop" /\ i <= Len(photos)
      /\ photos[i] \in sent_photos
      /\ pc' \notin {"crashed", "raised"})
     => /\ pc' = "loop" /\ i' = i + 1
        /\ sent_photos' = sent_photos /\ txn' = txn /\ dbFile' = dbFile
        /\ marked' = marked /\ delivered' = delivered
        /\ sendLog' = sendLog /\ smtpOpen' = smtpOpen
        /\ sessions' = sessions /\ outbox' = outbox]_vars

\* C12 witness: a second run has skipped an item and is back at the head of
\* the loop.
C12_Witness == pc = "loop" /\ runs = 2 /\ skipNow # {} /\ i > 1

\* C13 (the claim as stated): when a run returns, every item whose send
\* returned in it is in the store, and the except branch ran only for items
\* whose send raised.
C13_DeliveredImpliesRecorded ==
  pc = "returned" =>
    /\ \A x \in okNow : x \in sent_photos
    /\ \A x \in caughtNow : x \in failNow /\ x \notin okNow

\* C14: a call of mark_as_sent never raises because the filename is in the
\* store, and after the calls for photos[1..i-1] the store holds the rows
\* it held before and those names, each once: a call for a name that is in
\* the store leaves it as it was, a second call gives what the first gave.
C14_RecordIdempotent ==
  /\ caughtNow = {}
  /\ (pc = "loop" =>
        /\ txn = {}
        /\ sent_photos = rows0 \cup {photos[k] : k \in 1..(i - 1)}
        /\ ((i > 1 /\ \A k \in 1..(i - 1) : photos[k] \in rows0) =>
              sent_photos = rows0))

\* C14 witness: mark_as_sent has returned twice for the same name.
C14_Witness ==
  /\ pc = "loop" /\ i = 3 /\ photos[1] = photos[2]
  /\ sent_photos = rows0 \cup {photos[1]}

\* C15 (the claim as stated): with the directory unchanged, a run that
\* returns after a run that returned has attempted every item that run left
\* out of the store; and a run that returns with every discovered item
\* either delivered by it or skipped as delivered before leaves every
\* discovered filename in the store, so that the runs after it send nothing.
C15_Convergence ==
  /\ (pc = "returned" /\ prevDone => prevMissing \subseteq AttemptedNow)
  /\ (pc = "returned" /\ Range(photos) \subseteq okNow \cup skipNow
        => Range(photos) \subseteq sent_photos)

\* C16: the decision at the head of the loop rests on the filename alone:
\* an item is skipped only if exactly its name (same case) is in the store,
\* it is sent only if its name is not, and a file whose content changed
\* under a recorded name is never sent again.
C16_FilenameIsKey ==
  [][/\ (pc = "loop" /\ pc' = "loop" /\ i' = i + 1
           => photos[i] \in sent_photos)
     /\ (pc = "loop" /\ pc' = "send"
           => photos[i] \notin sent_photos /\ photos[i] \notin changed)
     /\ (pc' \in SendPcs => photos'[i'] \notin changed')]_vars

\* C16 witness: a run has sent A.jpg and skipped a.jpg, which is recorded
\* and has changed content since.
C16_Witness ==
  /\ pc = "loop" /\ a_jpg \in changed /\ a_jpg \in skipNow
  /\ A_jpg \in okNow

\* C17: a call of send_photo_via_email opens at most one SMTP session, at
\* most one session is open at any time and only inside the with block, no
\* session is open once the call has returned or raised, and a call that
\* returned has sent one message whose only attachment is its item.
C17_SessionScope ==
  /\ smtpOpen \in {0, 1} /\ sessions \in {0, 1}
  /\ (smtpOpen = 1 => SessionHeld)
  /\ (~Sending => smtpOpen = 0)
  /\ Len(outbox) <= 1
  /\ (pc \in {"mark", "commit"} =>
        sessions = 1 /\ outbox = << <<photos[i]>> >>)

\* C17 witness: a call raised after its session was opened and before the
\* message was sent (login or send_message failed), and the session is
\* closed.
C17_Witness ==
  /\ pc = "loop" /\ i > 1 /\ photos[i - 1] \in failNow
  /\ sessions = 1 /\ outbox = <<>> /\ smtpOpen = 0

\* C18 (the claim as stated): once rows of the store are unreadable, no run
\* is ended by an exception of init_db or of a store read: the unreadable
\* rows are skipped and the run goes on with the readable ones.
C18_MalformedRowsSkipped ==
  [][damaged => ~(/\ pc' = "raised"
                  /\ pc # "raised" \/ runs' # runs)]_vars

\* s is an initial part of t.
IsPrefix(s, t) == Len(s) <= Len(t) /\ SubSeq(t, 1, Len(s)) = s

\* The items among the first k discovered that were not in the store when
\* the run was called, in discovery order.
DueUpTo(k) ==
  LET NotInStore(x) == x \notin rows0
  IN SelectSeq(SubSeq(photos, 1, k), NotInStore)

\* C19: the calls of send_photo_via_email made by a run are, in order, the
\* discovered items that were not in the store: all of them up to the
\* position of the loop, all of them when the run returns; and when a call
\* is made no store write is pending, every item delivered before it being
\* in the store already unless its write raised.
C19_DeliveryOrder ==
  /\ IsPrefix(sendLog, DueUpTo(Len(photos)))
  /\ (pc = "loop" => sendLog = DueUpTo(i - 1))
  /\ (InItem => sendLog = DueUpTo(i))
  /\ (pc = "returned" => sendLog = DueUpTo(Len(photos)))
  /\ (Sending =>
        /\ txn = {}
        /\ \A k \in 1..(Len(sendLog) - 1) :
             sendLog[k] \in okNow =>
               sendLog[k] \in sent_photos \cup caughtNow)

\* C19 witness: a run has returned after skipping a recorded item and
\* calling send_photo_via_email for two others, the first of them recorded.
C19_Witness ==
  /\ pc = "returned" /\ skipNow # {} /\ Len(sendLog) = 2
  /\ sendLog[1] \in sent_photos

\* s holds no element twice.
NoRepeat(s) == \A j, k \in 1..Len(s) : s[j] = s[k] => j = k

\* C20: within a run send_photo_via_email is called at most once for a
\* filename: every discovered name matches exactly one of the patterns and
\* occurs once in the discovery sequence, and an item whose send raised is
\* not sent again before the run ends.
C20_NoRetryInRun ==
  /\ NoRepeat(photos)
  /\ \A x \in Range(photos) :
       Cardinality({p \in 1..Len(Patterns) : EndsWith(x, Patterns[p])}) = 1
  /\ NoRepeat(sendLog)
  /\ \A x \in failNow :
       Cardinality({k \in 1..Len(sendLog) : sendLog[k] = x}) = 1

\* C20 witness: a run has returned after two calls of send_photo_via_email,
\* the first of which raised.
C20_Witness ==
  /\ pc = "returned" /\ Len(sendLog) = 2
  /\ sendLog[1] \in failNow /\ sendLog[2] \in okNow

\* C21 (the claim as stated): when control has left sync_photos, by return
\* or by an exception, the connection the run opened is closed; and the
\* store is read or written only on an open connection.
C21_HandleLifecycle ==
  /\ (Ended => conn # "open")
  /\ (pc \in {"loop", "mark", "commit"} => conn = "open")

\* C22 (the claim as stated): after start_round or clear_entry has run, by
\* a button, by BackSpace or at the end of a finished round, and before the
\* next digit is accepted, entry and inputs are empty and started_at is
\* None.
C22_RoundReset ==
  event \in {"start_round", "clear_entry", "close"} =>
    entry = <<>> /\ inputs = <<>> /\ started_at = "None"

\* A click or a key event is handled.
PadEvent ==
  \/ \E b \in Buttons : OnClickCell(b)
  \/ \E key \in Keysyms : OnKey(key)
  \/ ClickStart \/ ClickClear \/ ClickStats

\* C23 (the claim as stated): every click and key event finds entry shorter
\* than the PIN; a round whose result box is closed has appended one stats
\* row and a new round has started; Enter with an empty entry changes
\* nothing.
C23_EntryBoundAutoFinish ==
  [][/\ (PadEvent => Len(entry) < PinLen)
     /\ (CloseDialog => Len(dialogs) = 1 /\ entry' = <<>>)
     /\ (OnKey("Return") /\ entry = <<>> => UNCHANGED vars)]_vars

\* C24: coord_to_digit maps the positions one-to-one onto the digits and
\* digit_to_coord is its inverse, in every state of the window, whatever
\* start_round has done.
C24_LayoutPermutation ==
  /\ DOMAIN coord_to_digit = Positions
  /\ DOMAIN digit_to_coord = Digits
  /\ {coord_to_digit[c] : c \in Positions} = Digits
  /\ \A a, b \in Positions :
       coord_to_digit[a] = coord_to_digit[b] => a = b
  /\ \A c \in Positions : digit_to_coord[coord_to_digit[c]] = c
  /\ \A d \in Digits : coord_to_digit[digit_to_coord[d]] = d

\* C24 witness: the START button has run start_round and the first position
\* shows the digit 1.
C24_Witness ==
  event = "start_round" /\ coord_to_digit[<<0, 0>>] = "1"

\* C25: a step of clear_entry, by the CLEAR button or by BackSpace, leaves
\* entry and inputs empty and started_at None, and it leaves the layout, the
\* PIN and the stats file as they were.
C25_ClearKeepsBoard ==
  [][ClickClear \/ OnKey("BackSpace") =>
       /\ entry' = <<>> /\ inputs' = <<>> /\ started_at' = "None"
       /\ UNCHANGED <<coord_to_digit, digit_to_coord, pin, stats>>]_vars

\* C25 witness: clear_entry has wiped an attempt in the main window, and the
\* first position still shows the digit 1.
C25_Witness ==
  /\ event = "clear_entry" /\ dialogs = <<>> /\ entry = <<>>
  /\ coord_to_digit[<<0, 0>>] = "1"

\* C26: when a round is finished, the verdict shown is Correct exactly if
\* the correct count of the row appended equals its total, which is the
\* length of the PIN; the count lies in 0..total; and a round finished with
\* fewer digits than the PIN has is Incorrect with correct < total.
C26_VerdictAgrees ==
  [][Len(verdicts') > Len(verdicts) =>
       LET v == verdicts'[Len(verdicts')]
           row == stats'[Len(stats')]
       IN /\ Len(stats') = Len(verdicts')
          /\ row = <<v[2], v[3]>>
          /\ v[3] = PinLen
          /\ v[2] \in 0..v[3]
          /\ (v[1] = "Correct" <=> v[2] = v[3])
          /\ (Len(entry') < PinLen => v[1] = "Incorrect" /\ v[2] < v[3])]_vars

\* C26 witness: a round was finished with the PIN entered, and shown as
\* Correct.
C26_Witness ==
  /\ verdicts # <<>> /\ verdicts[1] = <<"Correct", PinLen, PinLen>>
  /\ dialogs = <<>>

====
